---------------------------- MODULE Spec2Model ----------------------------
(***************************************************************************)
(* A model of the gesture-driven ornament display: the gesture classifier  *)
(* (gestureService.ts), the App component's gesture handler, photo upload  *)
(* and display mode (App.tsx), and the TreeScene component's particle      *)
(* list, focus selector and frame callback (TreeScene.tsx), with the       *)
(* geometry of the generated particles, the lerp of a child towards its    *)
(* target, and the GestureService's detection loop (gestureService.ts).    *)
(*                                                                         *)
(* Numbers.  Landmark coordinates and the tilt are modelled on a grid of   *)
(* 1/100: the integer 5 stands for 0.05 and the integer 100 for 1.0.       *)
(* Distances are compared through their squares: Math.sqrt is strictly     *)
(* increasing on the non-negative reals, so  dist(a) < dist(b)  exactly    *)
(* when the sums of squares compare that way, and  dist < 0.05  exactly    *)
(* when the sum of squares is below 0.0025 (25 on the squared grid).       *)
(***************************************************************************)
EXTENDS Integers, Sequences, FiniteSets, TLC

VARIABLES
    appMode,          \* App: useState<AppMode>            (App.tsx:18)
    gestureState,     \* App: useState<GestureState>       (App.tsx:13)
    userImages,       \* App: useState<string[]>           (App.tsx:19)
    ornaments,        \* TreeScene: useMemo particle list  (TreeScene.tsx:25)
    focusedIndex,     \* TreeScene: useState(0)            (TreeScene.tsx:18)
    effectDeps,       \* the [mode, userImages.length] the focus effect last ran with
    focusedChildren,  \* children that took the focus branch in the latest frame
    lastOp,           \* history: the operation that produced this state
    lastLabel,        \* history: label of the latest result that showed a hand
    clsInput,         \* classifier harness: the landmarks argument
    clsOutput,        \* classifier harness: the completion of classifyGesture
    genCur,           \* generator harness: the latest run of the ornaments useMemo
    genPrev,          \* generator harness: the run before the latest
    handLandmarker,   \* GestureService: the provider is loaded (not null)
    video,            \* GestureService: the video element is set (not null)
    lastVideoTime,    \* GestureService: lastVideoTime
    requestRef,       \* GestureService: requestRef (0 for null)
    videoTime,        \* the video element's currentTime
    rafQueue,         \* the browser's scheduled animation-frame callbacks, by id
    nextRafId,        \* the id the next requestAnimationFrame returns
    stopped,          \* history: stop() returned and start() was not called since
    svcThrown,        \* history: a run of detect threw
    ornamentData,     \* TreeScene: the OrnamentData objects of the particle list
    genSeed,          \* history: the seed of the draws that generated them
    frameTargets,     \* per child: targetPos, targetScale, lerpFactor of the latest frame
    frameCount,       \* frames rendered so far
    smoothRotation,   \* TreeScene: smoothRotation.current
    groupYaw,         \* TreeScene: groupRef.current.rotation.y
    childRotation,    \* per child: what the frames added to rotation.x, rotation.y; lookAt
    frameDelta,       \* history: the delta of the latest frame, in sixtieths of a second
    lerpPos,          \* lerp harness: child.position
    lerpTarget,       \* lerp harness: targetPos, fixed
    lerpFrames,       \* lerp harness: frames applied so far
    lerpRate,         \* lerp harness: lerpFactor, fixed with the mode
    initPc,           \* App: where the async init of the effect stands
    isMounted,        \* App: isMounted of the effect
    serviceRef,       \* App: gestureServiceRef.current is set
    videoRef          \* App: videoRef.current is set

vars == <<appMode, gestureState, userImages, ornaments, focusedIndex, effectDeps,
          focusedChildren, lastOp, lastLabel, clsInput, clsOutput,
          genCur, genPrev,
          handLandmarker, video, lastVideoTime, requestRef, videoTime, rafQueue,
          nextRafId, stopped, svcThrown,
          ornamentData, genSeed, frameTargets, frameCount,
          smoothRotation, groupYaw, childRotation, frameDelta,
          lerpPos, lerpTarget, lerpFrames, lerpRate,
          initPc, isMounted, serviceRef, videoRef>>

appVars == <<appMode, gestureState, userImages, ornaments, focusedIndex, effectDeps,
             focusedChildren, lastOp, lastLabel>>

clsVars == <<clsInput, clsOutput>>

genVars == <<genCur, genPrev>>

frameVars == <<ornamentData, genSeed, frameTargets, frameCount,
               smoothRotation, groupYaw, childRotation, frameDelta>>

lerpVars == <<lerpPos, lerpTarget, lerpFrames, lerpRate>>

mountVars == <<initPc, isMounted, serviceRef, videoRef>>

svcVars == <<handLandmarker, video, lastVideoTime, requestRef, videoTime, rafQueue,
             nextRafId, stopped, svcThrown>>

\* The variables of the harnesses other than the classifier's.
extVars == <<genVars, svcVars, frameVars, lerpVars, mountVars>>

-----------------------------------------------------------------------------
(* Bounds of the model and constants of the program.                       *)

\* Files offered by one file-input change event: 0..MaxFiles.
MaxFiles == 2

\* Decorations generated per particle list.  The source sets 350
\* (constants.ts, ORNAMENT_COUNT); the generation loop is the same for any
\* count, and the model runs it for a small one.
ORNAMENT_COUNT == 2

\* pinchDistance < 0.05, squared on the 1/100 grid.
PinchThresholdSq == 25

\* dy * 5
TiltGain == 5

\* Math.max(-1, Math.min(1, ..)) on the 1/100 grid.
TiltLimit == 100

\* foldedCount >= 3
FoldedMin == 3

-----------------------------------------------------------------------------
(* JavaScript values.                                                      *)

Max(a, b) == IF a >= b THEN a ELSE b

Min(a, b) == IF a <= b THEN a ELSE b

\* A landmark {x, y, z}.
Pt(x, y, z) == [x |-> x, y |-> y, z |-> z]

\* The `landmarks` argument: null/undefined, or an array of hands, each hand
\* an array of landmarks.
Undefined == [defined |-> FALSE, list |-> <<>>]

Arr(hands) == [defined |-> TRUE, list |-> hands]

\* !landmarks || landmarks.length === 0
IsAbsent(landmarks) == (~landmarks.defined) \/ Len(landmarks.list) = 0

\* lm[i] is undefined past the end of the array (JavaScript indexes from 0).
Has(lm, i) == i < Len(lm)

At(lm, i) == lm[i + 1]

\* How a call ends: it returns a value, or it throws (reading a property of
\* undefined raises a TypeError).
Return(v) == [kind |-> "return", value |-> v]

Throw == [kind |-> "throw", value |-> "TypeError"]

Pending == [kind |-> "pending", value |-> "none"]

-----------------------------------------------------------------------------
(* gestureService.ts: calculateHandRotation and classifyGesture.           *)

calculateHandRotation_NoGuard(landmarks) ==
    IF (~landmarks.defined) \/ ~(Len(landmarks.list) > 0 /\ Has(landmarks.list[1], 17))
    THEN Throw
    ELSE LET lm == landmarks.list[1]
         IN  Return(Max(-TiltLimit, Min(TiltLimit, (At(lm, 17).y - At(lm, 2).y) * TiltGain)))

calculateHandRotation_NoClamp(landmarks) ==
    IF IsAbsent(landmarks) THEN Return(0)
    ELSE LET lm == landmarks.list[1]
         IN  IF ~Has(lm, 17) \/ ~Has(lm, 2) THEN Throw
             ELSE Return((At(lm, 17).y - At(lm, 2).y) * TiltGain)

calculateHandRotation(landmarks) ==
    IF IsAbsent(landmarks) THEN Return(0)
    ELSE LET lm == landmarks.list[1]
         IN  \* p1 = lm[17], p2 = lm[2]; p1.y - p2.y reads a property of each
             IF ~Has(lm, 17) \/ ~Has(lm, 2) THEN Throw
             ELSE Return(Max(-TiltLimit, Min(TiltLimit, (At(lm, 17).y - At(lm, 2).y) * TiltGain)))

\* dist(p1, p2), squared.
distSq(p1, p2) ==
    (p1.x - p2.x) * (p1.x - p2.x) + (p1.y - p2.y) * (p1.y - p2.y)
        + (p1.z - p2.z) * (p1.z - p2.z)

\* tips = [lm[8], lm[12], lm[16], lm[20]], mcps = [lm[5], lm[9], lm[13], lm[17]]
tipsIdx == <<8, 12, 16, 20>>

mcpsIdx == <<5, 9, 13, 17>>

\* The loop of lines 114-119: the fingers the loop counts as folded.  The
\* loop throws at the first finger whose tip or knuckle (or the wrist) is
\* undefined.
foldLoopThrows(lm) ==
    \E i \in 1..4 : ~Has(lm, tipsIdx[i]) \/ ~Has(lm, mcpsIdx[i]) \/ ~Has(lm, 0)

foldedCount(lm) ==
    Cardinality({i \in 1..4 :
        distSq(At(lm, tipsIdx[i]), At(lm, 0)) < distSq(At(lm, mcpsIdx[i]), At(lm, 0))})

classifyGesture_FistFirst(landmarks) ==
    LET rotation == calculateHandRotation(landmarks)
    IN  IF rotation.kind = "throw" THEN Throw
        ELSE IF IsAbsent(landmarks) THEN Return([gesture |-> "NONE", rotation |-> 0])
        ELSE LET lm == landmarks.list[1]
             IN  IF foldLoopThrows(lm) THEN Throw
                 ELSE IF foldedCount(lm) >= FoldedMin
                 THEN Return([gesture |-> "CLOSED_FIST", rotation |-> rotation.value])
                 ELSE IF distSq(At(lm, 4), At(lm, 8)) < PinchThresholdSq
                 THEN Return([gesture |-> "PINCH", rotation |-> rotation.value])
                 ELSE Return([gesture |-> "OPEN_PALM", rotation |-> rotation.value])

classifyGesture_AllFolded(landmarks) ==
    LET rotation == calculateHandRotation(landmarks)
    IN  IF rotation.kind = "throw" THEN Throw
        ELSE IF IsAbsent(landmarks) THEN Return([gesture |-> "NONE", rotation |-> 0])
        ELSE LET lm == landmarks.list[1]
             IN  IF ~Has(lm, 4) \/ ~Has(lm, 8) THEN Throw
                 ELSE IF distSq(At(lm, 4), At(lm, 8)) < PinchThresholdSq
                 THEN Return([gesture |-> "PINCH", rotation |-> rotation.value])
                 ELSE IF foldLoopThrows(lm) THEN Throw
                 ELSE IF foldedCount(lm) >= 4
                 THEN Return([gesture |-> "CLOSED_FIST", rotation |-> rotation.value])
                 ELSE Return([gesture |-> "OPEN_PALM", rotation |-> rotation.value])

classifyGesture(landmarks) ==
    LET rotation == calculateHandRotation(landmarks)
    IN  IF rotation.kind = "throw" THEN Throw
        ELSE IF IsAbsent(landmarks) THEN Return([gesture |-> "NONE", rotation |-> 0])
        ELSE LET lm == landmarks.list[1]
             IN  \* thumbTip = lm[4], indexTip = lm[8]
                 IF ~Has(lm, 4) \/ ~Has(lm, 8) THEN Throw
                 ELSE IF distSq(At(lm, 4), At(lm, 8)) < PinchThresholdSq
                 THEN Return([gesture |-> "PINCH", rotation |-> rotation.value])
                 ELSE IF foldLoopThrows(lm) THEN Throw
                 ELSE IF foldedCount(lm) >= FoldedMin
                 THEN Return([gesture |-> "CLOSED_FIST", rotation |-> rotation.value])
                 ELSE Return([gesture |-> "OPEN_PALM", rotation |-> rotation.value])

-----------------------------------------------------------------------------
(* Hand observations fed to the classifier.  A hand is built from what     *)
(* the classifier reads: the wrist lm[0], the four knuckles and tips, the  *)
(* thumb tip lm[4] (placed relative to the index tip lm[8]) and the thumb  *)
(* base lm[2] (placed dy below the pinky base lm[17]).                     *)

FingerPoses == {"ext", "fold", "edge"}

knuckle(f) ==
    CASE f = 1 -> Pt(3, 9, 0) [] f = 2 -> Pt(1, 10, 0)
      [] f = 3 -> Pt(-1, 9, 0) [] f = 4 -> Pt(-3, 8, 0)

\* "ext": the tip is farther from the wrist than the knuckle; "fold": it is
\* nearer; "edge": it is exactly as far (the knuckle mirrored in x).
fingertip(f, pose) ==
    CASE pose = "ext"  -> Pt(knuckle(f).x, knuckle(f).y + 8, 0)
      [] pose = "fold" -> Pt(knuckle(f).x, knuckle(f).y - 5, 0)
      [] pose = "edge" -> Pt(-knuckle(f).x, knuckle(f).y, 0)

MkHand(poses, thumbOff, dy) ==
    [i \in 1..21 |->
        LET j == i - 1
        IN  CASE j = 0 -> Pt(0, 0, 0)
              [] j = 2 -> Pt(6, knuckle(4).y - dy, 0)
              [] j = 4 -> Pt(fingertip(1, poses[1]).x + thumbOff.x,
                             fingertip(1, poses[1]).y + thumbOff.y,
                             fingertip(1, poses[1]).z + thumbOff.z)
              [] j \in {5, 9, 13, 17} -> knuckle((j - 1) \div 4)
              [] j \in {8, 12, 16, 20} -> fingertip(j \div 4 - 1, poses[j \div 4 - 1])
              [] OTHER -> Pt(j, j + 1, 1)]

\* Offsets of the thumb tip from the index tip: squared lengths 0, 24, 25
\* (exactly 0.05 apart), 27 and 144.
ThumbOffsets == {Pt(0, 0, 0), Pt(4, 2, 2), Pt(3, 4, 0), Pt(3, 3, 3), Pt(12, 0, 0)}

\* pinkyBase.y - thumbBase.y: 5 * dy passes both clamps, meets them, stays inside.
TiltDys == {-30, -20, -7, 0, 7, 20, 21}

WellFormedHands ==
    {MkHand(p, t, d) : p \in [1..4 -> FingerPoses], t \in ThumbOffsets, d \in TiltDys}

\* Observations with fewer than 21 landmarks: the first n of a hand.
TruncatedHands ==
    {SubSeq(MkHand(p, t, 7), 1, n) :
        p \in {[f \in 1..4 |-> "ext"], [f \in 1..4 |-> "fold"]},
        t \in {Pt(0, 0, 0), Pt(12, 0, 0)},
        n \in 0..20}

ClassifierInputs ==
    {Undefined, Arr(<<>>)} \cup {Arr(<<h>>) : h \in WellFormedHands \cup TruncatedHands}

\* The hands the landmark provider delivers to the App in this model: always
\* 21 landmarks (MediaPipe's hand model), one per label and tilt.
AppHands ==
    {MkHand(p, t, d) :
        p \in {[f \in 1..4 |-> "ext"], [f \in 1..4 |-> "fold"]},
        t \in {Pt(0, 0, 0), Pt(12, 0, 0)},
        d \in {-30, 0, 7}}

\* What detectForVideo hands to onResult: worldLandmarks is empty (or
\* missing) when no hand is seen, else holds one hand (numHands: 1).
DetectionResults ==
    {[worldLandmarks |-> l] :
        l \in {Undefined, Arr(<<>>)} \cup {Arr(<<h>>) : h \in AppHands}}

-----------------------------------------------------------------------------
(* App.tsx: handleGestureResult.                                           *)

\* landmarks && landmarks.length > 0
HandSeen(result) ==
    result.worldLandmarks.defined /\ Len(result.worldLandmarks.list) > 0

appModeAfter_Swapped(mode, gesture) ==
    IF gesture = "CLOSED_FIST" THEN "SCATTER"
    ELSE IF gesture = "OPEN_PALM" THEN "TREE"
    ELSE IF gesture = "PINCH" THEN "FOCUS"
    ELSE mode

\* The state machine of lines 34-42, on the label classifyGesture returned.
appModeAfter(mode, gesture) ==
    IF gesture = "CLOSED_FIST" THEN "TREE"
    ELSE IF gesture = "OPEN_PALM" THEN "SCATTER"
    ELSE IF gesture = "PINCH" THEN "FOCUS"
    ELSE mode

noHandMode_Reset(mode) == "TREE"

noHandMode_Scatter(mode) == "SCATTER"

\* The else branch of lines 44-46 makes no call of setAppMode.
noHandMode(mode) == mode

\* setGestureState(prev => ({ ...prev, isHandDetected: false, gesture: 'NONE' }))
noHandGestureState(prev) ==
    [prev EXCEPT !.isHandDetected = FALSE, !.gesture = "NONE"]

\* setGestureState({ isHandDetected: true, gesture, handRotation: rotation })
handGestureState(c) ==
    [isHandDetected |-> TRUE, gesture |-> c.gesture, handRotation |-> c.rotation]

-----------------------------------------------------------------------------
(* TreeScene.tsx: the particle list and the focus selector.                *)

\* Math.random() > 0.4 ? GEM : PEARL, one draw per decoration.
DecorKinds == [1..ORNAMENT_COUNT -> {"GEM", "PEARL"}]

\* The useMemo of lines 25-99: one PHOTO per image, in the order of the
\* list, then ORNAMENT_COUNT decorations.  Positions, colours and scales
\* are not part of this state.
generateOrnaments(images, kinds) ==
    [i \in 1..Len(images) |->
        [id |-> <<"photo", i - 1>>, type |-> "PHOTO", textureUrl |-> images[i]]]
    \o
    [i \in 1..ORNAMENT_COUNT |->
        [id |-> <<"ornament", i - 1>>, type |-> kinds[i], textureUrl |-> 0]]

photoIndices_All(items) == [i \in 1..Len(items) |-> i - 1]

\* ornaments.map((o, i) => o.type === PHOTO ? i : -1).filter(i => i !== -1)
photoIndices(items) ==
    LET mapped == [i \in 1..Len(items) |-> IF items[i].type = "PHOTO" THEN i - 1 ELSE -1]
    IN  SelectSeq(mapped, LAMBDA i : i # -1)

\* The effect of lines 181-190 runs after a render whose [mode,
\* userImages.length] differ from those of the render it last ran after.
EffectPending == effectDeps # <<appMode, Len(userImages)>>

-----------------------------------------------------------------------------
(* TreeScene.tsx: the generation of the particle list with its geometry    *)
(* (the useMemo of lines 25-99).                                           *)
(*                                                                         *)
(* Math.random() is a stream of draws; a draw is modelled in hundredths    *)
(* (0..99 for [0, 1)) and the stream by its seed: draw number k of the     *)
(* stream with seed s is Math_random(s, k).  The generation draws three    *)
(* numbers per photo (the scattered x, y, z) and ten per decoration, in    *)
(* the order of the source: radial factor, type, colour, scattered x, y,   *)
(* z, three rotation angles, scale.                                        *)
(*                                                                         *)
(* Heights and radii are exact fractions <<numerator, denominator>> with a *)
(* positive denominator.  The aggregated position (cos(theta) * r, y,      *)
(* sin(theta) * r) is kept in its polar form: the height y, the angle      *)
(* theta = thetaGolden * goldenAngle + thetaPi * PI, the cone radius at    *)
(* the height and the square u of the random radial factor, in units of    *)
(* 1/10000 (r = radius * sqrt(u / 10000)).  The radius is positive for     *)
(* every particle and sqrt is strictly increasing, so two positions of the *)
(* same index are the same point exactly when their polar forms are equal. *)
(* Scattered positions are on the 1/100 grid, scales on the 1/1000 grid.   *)

\* constants.ts: TREE_HEIGHT = 15
TREE_HEIGHT == 15

\* constants.ts: TREE_RADIUS_BASE = 6.5, in tenths.
TREE_RADIUS_BASE == 65

\* Seeds of the Math.random() streams: 0..MaxSeed.
MaxSeed == 2

Math_random(seed, k) == (seed * 37 + k * 53 + k * k * 7) % 100

FracLess(a, b) == a[1] * b[2] < b[1] * a[2]

FracEq(a, b) == a[1] * b[2] = b[1] * a[2]

\* ((TREE_HEIGHT / 2) - y) / TREE_HEIGHT * TREE_RADIUS_BASE, times
\* factor10 / 10.
coneRadius(y, factor10) ==
    <<(TREE_HEIGHT * y[2] - 2 * y[1]) * TREE_RADIUS_BASE * factor10,
      2 * y[2] * TREE_HEIGHT * 10 * 10>>

photoTreeY_Edge(i, count) ==
    <<70 * TREE_HEIGHT * (i + 1) - 35 * TREE_HEIGHT * count, 100 * count>>

\* t = (i + 1) / (userImages.length + 1);
\* y = (t * TREE_HEIGHT * 0.7) - (TREE_HEIGHT * 0.35)
photoTreeY(i, count) ==
    <<70 * TREE_HEIGHT * (i + 1) - 35 * TREE_HEIGHT * (count + 1), 100 * (count + 1)>>

\* Lines 40-63, for the photo of index i (from 0) of the list images, with
\* the draws of the stream that start at number k.
photoParticle(images, i, seed, k) ==
    LET y == photoTreeY(i, Len(images))
    IN  [id |-> <<"photo", i>>,
         type |-> "PHOTO",
         textureUrl |-> images[i + 1],
         positionTree |-> [y |-> y, radius |-> coneRadius(y, 12), u |-> 10000,
                           thetaGolden |-> i * 8, thetaPi |-> 1],
         positionScatter |-> [x |-> (Math_random(seed, k) - 50) * 35,
                              y |-> (Math_random(seed, k + 1) - 50) * 20,
                              z |-> (Math_random(seed, k + 2) - 50) * 10],
         scale |-> 1000]

decorPositionTree_DrawnAngle(i, count, h) ==
    LET y == <<TREE_HEIGHT * (2 * i - count), 2 * count>>
    IN  [y |-> y, radius |-> coneRadius(y, 10), u |-> h * 30 + 7000,
         thetaGolden |-> i + h, thetaPi |-> 0]

\* Lines 68-82: yNorm = i / ORNAMENT_COUNT; y = yNorm * TREE_HEIGHT -
\* TREE_HEIGHT / 2; theta = i * goldenAngle;
\* r = radiusAtHeight * Math.sqrt(Math.random() * 0.3 + 0.7), h the draw.
decorPositionTree(i, count, h) ==
    LET y == <<TREE_HEIGHT * (2 * i - count), 2 * count>>
    IN  [y |-> y, radius |-> coneRadius(y, 10), u |-> h * 30 + 7000,
         thetaGolden |-> i, thetaPi |-> 0]

\* Lines 66-96, for the decoration of index i (from 0) of count, with the
\* draws of the stream that start at number k.
decorParticle(i, count, seed, k) ==
    [id |-> <<"ornament", i>>,
     type |-> IF Math_random(seed, k + 1) > 40 THEN "GEM" ELSE "PEARL",
     textureUrl |-> 0,
     positionTree |-> decorPositionTree(i, count, Math_random(seed, k)),
     positionScatter |-> [x |-> (Math_random(seed, k + 3) - 50) * 50,
                          y |-> (Math_random(seed, k + 4) - 50) * 35,
                          z |-> (Math_random(seed, k + 5) - 50) * 25],
     scale |-> Math_random(seed, k + 9) * 3 + 100]

\* The whole useMemo: the photos in the order of the list, then the
\* decorations in the order of the loop.
generateParticles(images, count, seed) ==
    [i \in 1..Len(images) |-> photoParticle(images, i - 1, seed, 3 * (i - 1))]
    \o
    [i \in 1..count |-> decorParticle(i - 1, count, seed, 3 * Len(images) + 10 * (i - 1))]

\* The photo lists the generator is run on: the lists without repetition of
\* up to MaxFiles object URLs.
PhotoLists ==
    UNION {{l \in [1..n -> 1..MaxFiles] : \A a, b \in 1..n : a # b => l[a] # l[b]} :
              n \in 0..MaxFiles}

\* The App's effect of lines 49-122 just after it ran: init() has called
\* service.initialize() and awaits the race of it with the timeout.
MountIdle ==
    /\ initPc = "awaitRace"
    /\ isMounted = TRUE
    /\ serviceRef = FALSE
    /\ videoRef = TRUE

\* The lerp harness before a child is handed to it.
LerpIdle ==
    /\ lerpPos = [x |-> 0, y |-> 0, z |-> 0]
    /\ lerpTarget = [x |-> 0, y |-> 0, z |-> 0]
    /\ lerpFrames = 0
    /\ lerpRate = 2

\* The frame harness before a particle list is handed to it.
FrameIdle ==
    /\ ornamentData = <<>>
    /\ genSeed = 0
    /\ frameTargets = <<>>
    /\ frameCount = 0
    /\ smoothRotation = 0
    /\ groupYaw = 0
    /\ childRotation = <<>>
    /\ frameDelta = 0

NoGeneration == [made |-> FALSE, images |-> <<>>, count |-> 0, seed |-> 0, items |-> <<>>]

GenIdle == genCur = NoGeneration /\ genPrev = NoGeneration

-----------------------------------------------------------------------------
(* gestureService.ts: the GestureService object after its construction     *)
(* (lines 4-13).                                                           *)

SvcIdle ==
    /\ handLandmarker = FALSE
    /\ video = FALSE
    /\ lastVideoTime = -1
    /\ requestRef = 0
    /\ videoTime = 0
    /\ rafQueue = {}
    /\ nextRafId = 1
    /\ stopped = FALSE
    /\ svcThrown = FALSE

-----------------------------------------------------------------------------
(* The App with its TreeScene: the state after the first render and the    *)
(* first run of the effects (mode TREE, no image: the focus effect ran and *)
(* selected nothing), and one action per handler.                          *)

Init ==
    /\ appMode = "TREE"
    /\ gestureState = [isHandDetected |-> FALSE, gesture |-> "NONE", handRotation |-> 0]
    /\ userImages = <<>>
    /\ \E kinds \in DecorKinds : ornaments = generateOrnaments(<<>>, kinds)
    /\ focusedIndex = 0
    /\ effectDeps = <<"TREE", 0>>
    /\ focusedChildren = {}
    /\ lastOp = "init"
    /\ lastLabel = "NONE"
    /\ clsInput = Undefined
    /\ clsOutput = Pending
    /\ GenIdle
    /\ SvcIdle
    /\ FrameIdle
    /\ MountIdle
    /\ LerpIdle

\* handleGestureResult (App.tsx:23-47), called by the detection loop with a
\* detection result, and the render its state updates cause.  Effects of
\* the previous render are flushed before React renders again.
handleGestureResult(result) ==
    /\ ~EffectPending
    /\ IF HandSeen(result)
       THEN LET c == classifyGesture(result.worldLandmarks)
            IN  /\ c.kind = "return"
                /\ gestureState' = handGestureState(c.value)
                /\ appMode' = appModeAfter(appMode, c.value.gesture)
                /\ lastLabel' = c.value.gesture
       ELSE /\ gestureState' = noHandGestureState(gestureState)
            /\ appMode' = noHandMode(appMode)
            /\ lastLabel' = lastLabel
    /\ lastOp' = "handleGestureResult"
    /\ UNCHANGED <<userImages, ornaments, focusedIndex, effectDeps, focusedChildren>>

\* The handler called with a result, nothing else happening.
HandleGestureResult(result) ==
    /\ handleGestureResult(result)
    /\ UNCHANGED <<clsVars, extVars>>

\* handleFileUpload (App.tsx:124-132) with a null file list: it returns at
\* once.  The file input exists only while there is no image
\* (UIOverlay: !hasImages).
HandleFileUploadNull ==
    /\ ~EffectPending
    /\ Len(userImages) = 0
    /\ lastOp' = "handleFileUploadNull"
    /\ UNCHANGED <<appMode, gestureState, userImages, ornaments, focusedIndex,
                   effectDeps, focusedChildren, lastLabel>>
    /\ UNCHANGED <<clsVars, extVars>>

\* handleFileUpload with a list of n files: one fresh object URL per file is
\* appended; userImages is a new array, so the particle list is generated
\* again from it (with new random draws) in the render that follows.
HandleFileUpload(n) ==
    /\ ~EffectPending
    /\ Len(userImages) = 0
    /\ LET newImages == [k \in 1..n |-> Len(userImages) + k]
       IN  userImages' = userImages \o newImages
    /\ \E kinds \in DecorKinds : ornaments' = generateOrnaments(userImages', kinds)
    /\ lastOp' = "handleFileUpload"
    /\ UNCHANGED <<appMode, gestureState, focusedIndex, effectDeps, focusedChildren,
                   lastLabel>>
    /\ UNCHANGED <<clsVars, extVars>>

\* The focus effect (TreeScene.tsx:181-190) when it selects: the mode is
\* FOCUS, there is an image, and Math.floor(Math.random() * length) draws
\* one of the photo indices.
FocusEffectSelect ==
    /\ EffectPending
    /\ appMode = "FOCUS" /\ Len(userImages) > 0
    /\ Len(photoIndices(ornaments)) > 0
    /\ \E r \in 1..Len(photoIndices(ornaments)) :
           focusedIndex' = photoIndices(ornaments)[r]
    /\ effectDeps' = <<appMode, Len(userImages)>>
    /\ lastOp' = "setFocusedIndex"
    /\ UNCHANGED <<appMode, gestureState, userImages, ornaments, focusedChildren,
                   lastLabel>>
    /\ UNCHANGED <<clsVars, extVars>>

\* The focus effect when its conditions fail: it sets nothing.
FocusEffectSkip ==
    /\ EffectPending
    /\ ~(/\ appMode = "FOCUS" /\ Len(userImages) > 0
         /\ Len(photoIndices(ornaments)) > 0)
    /\ effectDeps' = <<appMode, Len(userImages)>>
    /\ lastOp' = "focusEffect"
    /\ UNCHANGED <<appMode, gestureState, userImages, ornaments, focusedIndex,
                   focusedChildren, lastLabel>>
    /\ UNCHANGED <<clsVars, extVars>>

focusBranch_AnyType(mode, items, focused) ==
    {i \in 0..(Len(items) - 1) : mode = "FOCUS" /\ i = focused}

\* The children the frame callback treats as the selected photo
\* (TreeScene.tsx:132-136): mode FOCUS, type PHOTO and i === focusedIndex.
focusBranch(mode, items, focused) ==
    {i \in 0..(Len(items) - 1) :
        mode = "FOCUS" /\ items[i + 1].type = "PHOTO" /\ i = focused}

\* useFrame (TreeScene.tsx:102-178), as far as the focus is concerned: which
\* children get the camera-locked target, the scale 4 and lookAt.  It
\* writes neither the mode, nor the images, nor focusedIndex.
UseFrame ==
    /\ focusedChildren' = focusBranch(appMode, ornaments, focusedIndex)
    /\ lastOp' = "useFrame"
    /\ UNCHANGED <<appMode, gestureState, userImages, ornaments, focusedIndex,
                   effectDeps, lastLabel>>
    /\ UNCHANGED <<clsVars, extVars>>

Next ==
    \/ \E result \in DetectionResults : HandleGestureResult(result)
    \/ HandleFileUploadNull
    \/ \E n \in 0..MaxFiles : HandleFileUpload(n)
    \/ FocusEffectSelect
    \/ FocusEffectSkip
    \/ UseFrame

Spec == Init /\ [][Next]_vars

-----------------------------------------------------------------------------
(* The classifier alone: classifyGesture applied to one input drawn from   *)
(* ClassifierInputs.                                                       *)

InitClassify ==
    /\ appMode = "TREE"
    /\ gestureState = [isHandDetected |-> FALSE, gesture |-> "NONE", handRotation |-> 0]
    /\ userImages = <<>>
    /\ ornaments = generateOrnaments(<<>>, [i \in 1..ORNAMENT_COUNT |-> "GEM"])
    /\ focusedIndex = 0
    /\ effectDeps = <<"TREE", 0>>
    /\ focusedChildren = {}
    /\ lastOp = "init"
    /\ lastLabel = "NONE"
    /\ clsInput \in ClassifierInputs
    /\ clsOutput = Pending
    /\ GenIdle
    /\ SvcIdle
    /\ FrameIdle
    /\ MountIdle
    /\ LerpIdle

Classify ==
    /\ clsOutput.kind = "pending"
    /\ clsOutput' = classifyGesture(clsInput)
    /\ clsInput' = clsInput
    /\ UNCHANGED <<appVars, extVars>>

NextClassify == Classify

SpecClassify == InitClassify /\ [][NextClassify]_vars

-----------------------------------------------------------------------------
(* The generator alone: two runs of the ornaments useMemo, each on a photo *)
(* list, a decoration count and a stream of draws of its own.  The source  *)
(* fixes the count to ORNAMENT_COUNT; the runs here take every count up to *)
(* the model's ORNAMENT_COUNT, the empty loop included.                    *)

\* The App and its TreeScene before any event (App.tsx:13-19).
AppIdle ==
    /\ appMode = "TREE"
    /\ gestureState = [isHandDetected |-> FALSE, gesture |-> "NONE", handRotation |-> 0]
    /\ userImages = <<>>
    /\ ornaments = generateOrnaments(<<>>, [i \in 1..ORNAMENT_COUNT |-> "GEM"])
    /\ focusedIndex = 0
    /\ effectDeps = <<"TREE", 0>>
    /\ focusedChildren = {}
    /\ lastOp = "init"
    /\ lastLabel = "NONE"

ClsIdle == clsInput = Undefined /\ clsOutput = Pending

InitGen ==
    /\ AppIdle
    /\ ClsIdle
    /\ GenIdle
    /\ SvcIdle
    /\ FrameIdle
    /\ MountIdle
    /\ LerpIdle

Generate(images, count, seed) ==
    /\ ~genPrev.made
    /\ genPrev' = genCur
    /\ genCur' = [made |-> TRUE, images |-> images, count |-> count, seed |-> seed,
                  items |-> generateParticles(images, count, seed)]
    /\ UNCHANGED <<appVars, clsVars, svcVars, frameVars, lerpVars, mountVars>>

NextGen ==
    \E images \in PhotoLists, count \in 0..ORNAMENT_COUNT, seed \in 0..MaxSeed :
        Generate(images, count, seed)

SpecGen == InitGen /\ [][NextGen]_vars

-----------------------------------------------------------------------------
(* The GestureService with the App's handler as its onResult callback: the *)
(* public methods start and stop, the completion of initialize, and the    *)
(* browser, which runs scheduled animation-frame callbacks and advances    *)
(* the video.                                                              *)

\* Ids requestAnimationFrame hands out: 1..MaxRaf.
MaxRaf == 4

\* video.currentTime takes the values 0..MaxVideoTime.
MaxVideoTime == 2

\* Results detectForVideo returns: no hand, or one hand of 21 landmarks.
ServiceResults ==
    {[worldLandmarks |-> l] :
        l \in {Arr(<<>>)} \cup
              {Arr(<<MkHand(p, t, d)>>) :
                  p \in {[f \in 1..4 |-> "ext"], [f \in 1..4 |-> "fold"]},
                  t \in {Pt(0, 0, 0), Pt(12, 0, 0)},
                  d \in {0, 7}}}

detectGuard_NoProvider(loaded, hasVideo, fresh) == hasVideo /\ fresh

detectGuard_AnyTime(loaded, hasVideo, fresh) == loaded /\ hasVideo

\* this.handLandmarker && this.video &&
\* this.video.currentTime !== this.lastVideoTime
detectGuard(loaded, hasVideo, fresh) == loaded /\ hasVideo /\ fresh

\* this.requestRef = requestAnimationFrame(this.detect), q being the
\* callbacks already scheduled.
scheduleDetect(q) ==
    /\ requestRef' = nextRafId
    /\ rafQueue' = q \cup {nextRafId}
    /\ nextRafId' = nextRafId + 1

\* detect (lines 64-71), run with this.video set or not and with q the
\* callbacks scheduled while it runs.  A call of detectForVideo on a null
\* provider is a TypeError: it ends detect before the next frame is
\* requested.
detect(hasVideo, q) ==
    /\ nextRafId <= MaxRaf
    /\ IF detectGuard(handLandmarker, hasVideo, videoTime # lastVideoTime)
       THEN /\ lastVideoTime' = videoTime
            /\ IF handLandmarker
               THEN /\ \E result \in ServiceResults : handleGestureResult(result)
                    /\ scheduleDetect(q)
                    /\ svcThrown' = svcThrown
               ELSE /\ svcThrown' = TRUE
                    /\ rafQueue' = q
                    /\ lastOp' = "detect"
                    /\ UNCHANGED <<requestRef, nextRafId>>
                    /\ UNCHANGED <<appMode, gestureState, userImages, ornaments,
                                   focusedIndex, effectDeps, focusedChildren, lastLabel>>
       ELSE /\ scheduleDetect(q)
            /\ lastOp' = "detect"
            /\ UNCHANGED <<lastVideoTime, svcThrown>>
            /\ UNCHANGED <<appMode, gestureState, userImages, ornaments,
                           focusedIndex, effectDeps, focusedChildren, lastLabel>>

InitService ==
    /\ AppIdle
    /\ ClsIdle
    /\ GenIdle
    /\ SvcIdle
    /\ FrameIdle
    /\ MountIdle
    /\ LerpIdle

\* initialize (lines 15-50) completes: the provider is created.
InitializeDone ==
    /\ ~handLandmarker
    /\ handLandmarker' = TRUE
    /\ lastOp' = "initialize"
    /\ UNCHANGED <<appMode, gestureState, userImages, ornaments, focusedIndex,
                   effectDeps, focusedChildren, lastLabel>>
    /\ UNCHANGED <<video, lastVideoTime, requestRef, videoTime, rafQueue, nextRafId,
                   stopped, svcThrown>>
    /\ UNCHANGED <<clsVars, genVars, frameVars, lerpVars, mountVars>>

\* start (lines 52-56): this.video = videoElement; this.detect()
start(videoElement) ==
    /\ video' = videoElement
    /\ stopped' = FALSE
    /\ detect(videoElement, rafQueue)
    /\ UNCHANGED <<handLandmarker, videoTime>>

\* start called with a video element, nothing else happening.
Start ==
    /\ start(TRUE)
    /\ UNCHANGED <<clsVars, genVars, frameVars, lerpVars, mountVars>>

\* stop (lines 58-62): cancels the request whose id requestRef holds.
stop ==
    /\ rafQueue' = IF requestRef # 0 THEN rafQueue \ {requestRef} ELSE rafQueue
    /\ stopped' = TRUE
    /\ UNCHANGED <<handLandmarker, video, lastVideoTime, requestRef, videoTime,
                   nextRafId, svcThrown>>

\* stop called, nothing else happening.
Stop ==
    /\ stop
    /\ lastOp' = "stop"
    /\ UNCHANGED <<appMode, gestureState, userImages, ornaments, focusedIndex,
                   effectDeps, focusedChildren, lastLabel>>
    /\ UNCHANGED <<clsVars, genVars, frameVars, lerpVars, mountVars>>

\* The browser runs the scheduled callback of the given id: detect.
AnimationFrame(id) ==
    /\ id \in rafQueue
    /\ detect(video, rafQueue \ {id})
    /\ UNCHANGED <<handLandmarker, video, videoTime, stopped>>
    /\ UNCHANGED <<clsVars, genVars, frameVars, lerpVars, mountVars>>

\* The video shows its next frame: currentTime advances.
VideoFrame ==
    /\ videoTime < MaxVideoTime
    /\ videoTime' = videoTime + 1
    /\ lastOp' = "videoFrame"
    /\ UNCHANGED <<appMode, gestureState, userImages, ornaments, focusedIndex,
                   effectDeps, focusedChildren, lastLabel>>
    /\ UNCHANGED <<handLandmarker, video, lastVideoTime, requestRef, rafQueue,
                   nextRafId, stopped, svcThrown>>
    /\ UNCHANGED <<clsVars, genVars, frameVars, lerpVars, mountVars>>

NextService ==
    \/ InitializeDone
    \/ Start
    \/ Stop
    \/ \E id \in 1..MaxRaf : AnimationFrame(id)
    \/ VideoFrame
    \/ FocusEffectSkip

SpecService == InitService /\ [][NextService]_vars

-----------------------------------------------------------------------------
(* The TreeScene with the geometry of its particles: a particle list       *)
(* generated for the images uploaded so far, the App's gesture handler,    *)
(* which changes the mode, the focus effect, and the frame callback with   *)
(* the target it computes for every child.  The positions of the children  *)
(* themselves, which each frame moves towards the targets, are not part of *)
(* this state.                                                             *)

\* Frames rendered in one behaviour: at most MaxFrames.
MaxFrames == 2

\* Math.sin at whole quarter turns, in hundredths.
sinQuarter(q) ==
    CASE q % 4 = 1 -> 100
      [] q % 4 = 3 -> -100
      [] OTHER -> 0

\* Math.sin(t * 0.5 + data.positionScatter.x) * 0.05 on the 1/100 grid.
\* The argument is sampled in quarter turns: tq for t * 0.5, and x taken
\* modulo 4 for the particle's own phase.
floatOffset(tq, x) == (sinQuarter(tq + (x % 4)) * 5) \div 100

\* What a frame leaves of one OrnamentData object.  In SCATTER mode
\* targetPos is data.positionScatter itself, not a copy, and
\* targetPos.y += ... writes into it (lines 129-131).
dataAfterFrame(mode, d, tq) ==
    IF mode = "SCATTER"
    THEN [d EXCEPT !.positionScatter.y = @ + floatOffset(tq, d.positionScatter.x)]
    ELSE d

\* The place of a target that is not on the scattered grid.
NoVector == [x |-> 0, y |-> 0, z |-> 0]

\* Lines 124-168 for one child: the target the child is moved to.  kind
\* "tree" is data.positionTree, kind "camera" the local target computed
\* from the camera (lines 139-152), kind "scatter" the vector pos.  The
\* scale is on the 1/1000 grid.
frameTarget(mode, d, isFocus, tq) ==
    IF mode = "SCATTER"
    THEN [kind |-> "scatter", pos |-> dataAfterFrame(mode, d, tq).positionScatter,
          scale |-> d.scale, lerpFactor |-> 2, lookAt |-> FALSE]
    ELSE IF mode = "FOCUS"
    THEN IF isFocus
         THEN [kind |-> "camera", pos |-> NoVector,
               scale |-> 4000, lerpFactor |-> 4, lookAt |-> TRUE]
         ELSE [kind |-> "scatter", pos |-> d.positionScatter,
               scale |-> d.scale, lerpFactor |-> 4, lookAt |-> FALSE]
    ELSE [kind |-> "tree", pos |-> NoVector,
          scale |-> d.scale, lerpFactor |-> 2, lookAt |-> FALSE]

\* The targets of one frame for all children.
frameTargetsOf(mode, data, items, focused, tq) ==
    [k \in 1..Len(data) |->
        frameTarget(mode, data[k], (k - 1) \in focusBranch(mode, items, focused), tq)]

\* The OrnamentData objects after one frame.
dataAfterFrameAll(mode, data, tq) ==
    [k \in 1..Len(data) |-> dataAfterFrame(mode, data[k], tq)]

\* Results with a hand and no tilt.
FrameResults ==
    {[worldLandmarks |-> Arr(<<MkHand(p, t, 0)>>)] :
        p \in {[f \in 1..4 |-> "ext"], [f \in 1..4 |-> "fold"]},
        t \in {Pt(0, 0, 0), Pt(12, 0, 0)}}

\* Results with an open hand, pinching or not: level, or tilted to either
\* limit.
RotateResults ==
    {[worldLandmarks |-> Arr(<<MkHand([f \in 1..4 |-> "ext"], t, d)>>)] :
        t \in {Pt(0, 0, 0), Pt(12, 0, 0)},
        d \in {-30, 0, 30}}

(* Rotations.  smoothRotation is kept in units of 1 / SmoothUnit, which    *)
(* makes every lerp by 0.1 of up to MaxFrames frames exact; the yaw of the *)
(* group in units of 1 / (600 * SmoothUnit) radians and the rotation of a  *)
(* child in units of 1 / 600 radians, which make the products with a delta *)
(* of dn / 60 seconds exact.  The rounding of doubles is not modelled.     *)

RECURSIVE Pow10(_)
Pow10(k) == IF k = 0 THEN 1 ELSE 10 * Pow10(k - 1)

SmoothUnit == 100 * Pow10(MaxFrames)

\* The handRotation prop (hundredths) in units of 1 / SmoothUnit.
rawTilt(handRotation) == handRotation * Pow10(MaxFrames)

MathUtils_lerp_Extrapolate(x, y, tnum, tden) == x + 2 * (y - x)

\* THREE.MathUtils.lerp(x, y, t) = (1 - t) * x + t * y, t = tnum / tden.
MathUtils_lerp(x, y, tnum, tden) == ((tden - tnum) * x + tnum * y) \div tden

groupYawAfter_AnyMode(mode, yaw, smooth, dn) == yaw + (2 * SmoothUnit + 15 * smooth) * dn

\* Lines 112-117: rotationSpeed = 0.2 + smoothRotation.current * 1.5;
\* rotation.y += rotationSpeed * delta, unless the mode is FOCUS.
groupYawAfter(mode, yaw, smooth, dn) ==
    IF mode # "FOCUS" THEN yaw + (2 * SmoothUnit + 15 * smooth) * dn ELSE yaw

secondaryRotation_All(type, rot, dn) ==
    [rot EXCEPT !.x = @ + 2 * dn, !.y = @ + 3 * dn]

\* Lines 173-176: child.rotation.x += delta * 0.2; child.rotation.y +=
\* delta * 0.3, for a child that is not a photo.
secondaryRotation(type, rot, dn) ==
    IF type # "PHOTO" THEN [rot EXCEPT !.x = @ + 2 * dn, !.y = @ + 3 * dn] ELSE rot

\* Lines 162 and 173-176 for one child: child.lookAt(camera.position) when
\* it is the selected photo, then the rotation of a child that is not a
\* photo.
childRotationAfter(type, rot, isFocus, dn) ==
    secondaryRotation(type, IF isFocus THEN [rot EXCEPT !.lookAt = TRUE] ELSE rot, dn)

\* Frame times in sixtieths of a second.
FrameSixtieths == {1, 2}

\* The state after the upload of n images (or of none) in TREE mode, the
\* particle list generated and the focus effect run.
InitFrameWith(n, seed) ==
    /\ LET images == [k \in 1..n |-> k]
           data == generateParticles(images, ORNAMENT_COUNT, seed)
       IN  /\ userImages = images
           /\ ornamentData = data
           /\ genSeed = seed
           /\ ornaments = generateOrnaments(images,
                              [i \in 1..ORNAMENT_COUNT |-> data[n + i].type])
           /\ effectDeps = <<"TREE", n>>
    /\ appMode = "TREE"
    /\ gestureState = [isHandDetected |-> FALSE, gesture |-> "NONE", handRotation |-> 0]
    /\ focusedIndex = 0
    /\ focusedChildren = {}
    /\ lastOp = "init"
    /\ lastLabel = "NONE"
    /\ frameTargets = <<>>
    /\ frameCount = 0
    /\ smoothRotation = 0
    /\ groupYaw = 0
    /\ childRotation = [k \in 1..Len(ornaments) |-> [x |-> 0, y |-> 0, lookAt |-> FALSE]]
    /\ frameDelta = 0
    /\ ClsIdle
    /\ GenIdle
    /\ SvcIdle
    /\ LerpIdle
    /\ MountIdle

InitFrame == \E n \in 0..MaxFiles, seed \in 0..MaxSeed : InitFrameWith(n, seed)

\* useFrame (TreeScene.tsx:102-178) with the targets of the children, the
\* rotation of the group and the rotations of the children; tq is the
\* elapsed time as in floatOffset, dn the delta in sixtieths of a second.
RenderFrame(tq, dn) ==
    /\ frameCount < MaxFrames
    /\ smoothRotation' = MathUtils_lerp(smoothRotation, rawTilt(gestureState.handRotation), 1, 10)
    /\ groupYaw' = groupYawAfter(appMode, groupYaw, smoothRotation', dn)
    /\ childRotation' =
           [k \in 1..Len(childRotation) |->
               childRotationAfter(ornaments[k].type, childRotation[k],
                                  (k - 1) \in focusBranch(appMode, ornaments, focusedIndex), dn)]
    /\ frameDelta' = dn
    /\ ornamentData' = dataAfterFrameAll(appMode, ornamentData, tq)
    /\ frameTargets' = frameTargetsOf(appMode, ornamentData, ornaments, focusedIndex, tq)
    /\ focusedChildren' = focusBranch(appMode, ornaments, focusedIndex)
    /\ frameCount' = frameCount + 1
    /\ lastOp' = "useFrame"
    /\ UNCHANGED <<appMode, gestureState, userImages, ornaments, focusedIndex,
                   effectDeps, lastLabel>>
    /\ UNCHANGED <<genSeed, clsVars, genVars, svcVars, lerpVars, mountVars>>

NextFrame ==
    \/ \E result \in FrameResults : HandleGestureResult(result)
    \/ FocusEffectSelect
    \/ FocusEffectSkip
    \/ \E tq \in 0..3 : RenderFrame(tq, 1)

SpecFrame == InitFrame /\ [][NextFrame]_vars

-----------------------------------------------------------------------------
(* The same TreeScene with one photo, under results that tilt the hand and *)
(* frames of two lengths: the rotations the frame callback writes.         *)

InitRotate == InitFrameWith(1, 0)

NextRotate ==
    \/ \E result \in RotateResults : HandleGestureResult(result)
    \/ FocusEffectSelect
    \/ FocusEffectSkip
    \/ \E dn \in FrameSixtieths : RenderFrame(0, dn)

SpecRotate == InitRotate /\ [][NextRotate]_vars

-----------------------------------------------------------------------------
(* The lerp of one child towards a fixed target (TreeScene.tsx:166-170):   *)
(* child.position.lerp(targetPos, delta * lerpFactor), which three.js      *)
(* computes per coordinate as  x += (v.x - x) * alpha.                     *)
(*                                                                         *)
(* Numbers.  The coordinates are IEEE doubles and the sum is rounded to    *)
(* the nearest double.  The model keeps a coordinate on a grid of LerpGrid *)
(* points per unit, the grid standing for the doubles around the target,   *)
(* and rounds the sum to the nearest grid point, ties to the even one.     *)

\* Grid points per unit of length.
LerpGrid == 100000

\* Frames applied in one behaviour: at most MaxLerpFrames.
MaxLerpFrames == 400

\* The integer nearest to n / d (d > 0), a tie going to the one that makes
\* base + result even.
roundNearestEven(n, d, base) ==
    LET f == n \div d
        r == n - f * d
    IN  IF 2 * r < d THEN f
        ELSE IF 2 * r > d THEN f + 1
        ELSE IF (base + f) % 2 = 0 THEN f ELSE f + 1

lerp_Overshoot(x, v, num, den) == x + roundNearestEven(2 * (v - x) * den, den, x)

\* x += (v - x) * alpha, with alpha = num / den.
lerp(x, v, num, den) == x + roundNearestEven((v - x) * num, den, x)

\* Vector3.lerp with alpha = delta * lerpFactor, delta = 1/60 and
\* lerpFactor = 2 (the mode is not FOCUS).
lerpVector(p, t) ==
    [x |-> lerp(p.x, t.x, 2, 60), y |-> lerp(p.y, t.y, 2, 60), z |-> lerp(p.z, t.z, 2, 60)]

\* Positions of the scene: aggregated positions lie within the cone
\* (|x|, |z| <= 6.5 * 1.2, |y| <= 7.5), scattered ones within
\* (-25, 25) x (-17.5, 17.5) x (-12.5, 12.5).
LerpPoints ==
    {[x |-> 0, y |-> 0, z |-> 0],
     [x |-> 25 * LerpGrid - 7, y |-> -17 * LerpGrid, z |-> 12 * LerpGrid + 1],
     [x |-> -25 * LerpGrid, y |-> 17 * LerpGrid + 3, z |-> -12 * LerpGrid],
     [x |-> 3 * LerpGrid, y |-> -7 * LerpGrid - 11, z |-> 6 * LerpGrid]}

InitLerp ==
    /\ AppIdle
    /\ ClsIdle
    /\ GenIdle
    /\ SvcIdle
    /\ FrameIdle
    /\ MountIdle
    /\ lerpPos \in LerpPoints
    /\ lerpTarget \in LerpPoints
    /\ lerpFrames = 0
    /\ lerpRate = 2

\* One frame: the child moves towards the target, which stays.
LerpFrame ==
    /\ lerpFrames < MaxLerpFrames
    /\ lerpPos' = lerpVector(lerpPos, lerpTarget)
    /\ lerpFrames' = lerpFrames + 1
    /\ UNCHANGED <<lerpTarget, lerpRate>>
    /\ UNCHANGED <<appVars, clsVars, genVars, svcVars, frameVars, mountVars>>

NextLerp == LerpFrame

SpecLerp == InitLerp /\ [][NextLerp]_vars

-----------------------------------------------------------------------------
(* The same lerp under frame times that vary: delta is the time since the  *)
(* previous frame, whatever it was, and lerpFactor is 4 in FOCUS mode and  *)
(* 2 otherwise; alpha = delta * lerpFactor is used as it is.               *)

\* Frames applied in one behaviour: at most MaxVarFrames.
MaxVarFrames == 2

\* Frame times in seconds, as fractions: a 60 Hz and a 30 Hz frame, a
\* quarter of a second, and the second a frame takes after the page was in
\* the background.
FrameDeltas == {<<1, 60>>, <<1, 30>>, <<1, 4>>, <<1, 1>>}

\* Vector3.lerp with alpha = delta * rate.
lerpVectorAt(p, t, delta, rate) ==
    [x |-> lerp(p.x, t.x, delta[1] * rate, delta[2]),
     y |-> lerp(p.y, t.y, delta[1] * rate, delta[2]),
     z |-> lerp(p.z, t.z, delta[1] * rate, delta[2])]

InitLerpVar ==
    /\ AppIdle
    /\ ClsIdle
    /\ GenIdle
    /\ SvcIdle
    /\ FrameIdle
    /\ MountIdle
    /\ lerpPos \in LerpPoints
    /\ lerpTarget \in LerpPoints
    /\ lerpFrames = 0
    /\ lerpRate \in {2, 4}

\* One frame that took the time delta.
LerpFrameAt(delta) ==
    /\ lerpFrames < MaxVarFrames
    /\ lerpPos' = lerpVectorAt(lerpPos, lerpTarget, delta, lerpRate)
    /\ lerpFrames' = lerpFrames + 1
    /\ UNCHANGED <<lerpTarget, lerpRate>>
    /\ UNCHANGED <<appVars, clsVars, genVars, svcVars, frameVars, mountVars>>

NextLerpVar == \E delta \in FrameDeltas : LerpFrameAt(delta)

SpecLerpVar == InitLerpVar /\ [][NextLerpVar]_vars

-----------------------------------------------------------------------------
(* The App's initialization effect (App.tsx:49-122) with its service: the  *)
(* async init, whose awaits resolve or reject when the browser decides,    *)
(* the loadeddata event of the video, the cleanup of the effect, and the   *)
(* detection loop of the service.  initPc is "awaitRace" while init awaits *)
(* Promise.race, "awaitCamera" while it awaits getUserMedia, "awaitVideo"  *)
(* once onloadeddata is installed, "started" once the handler has called   *)
(* start, "returned" when init or the handler gave up because the          *)
(* component is unmounted or the video element is gone, and "failed" after *)
(* the catch block.  Unmounting detaches videoRef and runs the cleanup, in *)
(* either order.                                                           *)

loadedDataStarts_Always(mounted) == TRUE

\* onloadeddata: if (isMounted) { ... service.start(videoRef.current!) ... }
loadedDataStarts(mounted) == mounted

\* What the steps of the effect leave alone besides the service.
MountFrame ==
    /\ UNCHANGED <<appMode, gestureState, userImages, ornaments, focusedIndex,
                   effectDeps, focusedChildren, lastLabel>>
    /\ UNCHANGED <<clsVars, genVars, frameVars, lerpVars>>

InitMount ==
    /\ AppIdle
    /\ ClsIdle
    /\ GenIdle
    /\ SvcIdle
    /\ FrameIdle
    /\ LerpIdle
    /\ MountIdle

\* initialize() assigns the provider (gestureService.ts:15-50); the race
\* may already have been lost to the timeout.
ProviderLoaded ==
    /\ ~handLandmarker
    /\ handLandmarker' = TRUE
    /\ lastOp' = "initialize"
    /\ MountFrame
    /\ UNCHANGED <<video, lastVideoTime, requestRef, videoTime, rafQueue, nextRafId,
                   stopped, svcThrown>>
    /\ UNCHANGED mountVars

\* Lines 70-77: the race resolves with initialize(); init returns if the
\* component is unmounted, else it stores the service and asks for the
\* camera, or throws when there is no getUserMedia.
RaceResolved(hasCameraApi) ==
    /\ initPc = "awaitRace"
    /\ handLandmarker
    /\ IF ~isMounted
       THEN initPc' = "returned" /\ serviceRef' = serviceRef
       ELSE /\ serviceRef' = TRUE
            /\ initPc' = IF hasCameraApi THEN "awaitCamera" ELSE "failed"
    /\ lastOp' = "raceResolved"
    /\ MountFrame
    /\ UNCHANGED svcVars
    /\ UNCHANGED <<isMounted, videoRef>>

\* The race rejects: the timeout of 60 s, or initialize() failing.
RaceRejected ==
    /\ initPc = "awaitRace"
    /\ initPc' = "failed"
    /\ lastOp' = "raceRejected"
    /\ MountFrame
    /\ UNCHANGED svcVars
    /\ UNCHANGED <<isMounted, serviceRef, videoRef>>

\* Lines 78-92: getUserMedia resolves; with a video element the stream is
\* attached and onloadeddata installed.
CameraResolved ==
    /\ initPc = "awaitCamera"
    /\ initPc' = IF videoRef THEN "awaitVideo" ELSE "returned"
    /\ lastOp' = "cameraResolved"
    /\ MountFrame
    /\ UNCHANGED svcVars
    /\ UNCHANGED <<isMounted, serviceRef, videoRef>>

\* getUserMedia rejects: the catch block.
CameraRejected ==
    /\ initPc = "awaitCamera"
    /\ initPc' = "failed"
    /\ lastOp' = "cameraRejected"
    /\ MountFrame
    /\ UNCHANGED svcVars
    /\ UNCHANGED <<isMounted, serviceRef, videoRef>>

\* The video fires loadeddata, once: the handler of lines 84-90 starts the
\* service when the component is mounted.
LoadedDataStart ==
    /\ initPc = "awaitVideo"
    /\ loadedDataStarts(isMounted)
    /\ start(videoRef)
    /\ initPc' = "started"
    /\ UNCHANGED <<clsVars, genVars, frameVars, lerpVars>>
    /\ UNCHANGED <<isMounted, serviceRef, videoRef>>

LoadedDataSkip ==
    /\ initPc = "awaitVideo"
    /\ ~loadedDataStarts(isMounted)
    /\ initPc' = "returned"
    /\ lastOp' = "loadedData"
    /\ MountFrame
    /\ UNCHANGED svcVars
    /\ UNCHANGED <<isMounted, serviceRef, videoRef>>

\* The cleanup of the effect (lines 117-121): isMounted = false;
\* gestureServiceRef.current?.stop()
Cleanup ==
    /\ isMounted
    /\ isMounted' = FALSE
    /\ IF serviceRef THEN stop ELSE UNCHANGED svcVars
    /\ lastOp' = "cleanup"
    /\ MountFrame
    /\ UNCHANGED <<initPc, serviceRef, videoRef>>

\* React detaches the ref of the video element that is removed.
DetachVideoRef ==
    /\ videoRef
    /\ videoRef' = FALSE
    /\ lastOp' = "detachRef"
    /\ MountFrame
    /\ UNCHANGED svcVars
    /\ UNCHANGED <<initPc, isMounted, serviceRef>>

NextMount ==
    \/ ProviderLoaded
    \/ \E hasCameraApi \in BOOLEAN : RaceResolved(hasCameraApi)
    \/ RaceRejected
    \/ CameraResolved
    \/ CameraRejected
    \/ LoadedDataStart
    \/ LoadedDataSkip
    \/ Cleanup
    \/ DetachVideoRef
    \/ \E id \in 1..MaxRaf : AnimationFrame(id)
    \/ VideoFrame
    \/ FocusEffectSkip

SpecMount == InitMount /\ [][NextMount]_vars

-----------------------------------------------------------------------------
(* Vocabulary of the properties, read off the observation itself.          *)

\* classifyGesture has run on clsInput.
Classified == clsOutput.kind # "pending"

\* clsInput holds one hand of n landmarks.
OneHandOf(n) ==
    clsInput.defined /\ Len(clsInput.list) = 1 /\ Len(clsInput.list[1]) = n

\* Landmark j of the observed hand (j from 0).
Landmark(j) == clsInput.list[1][j + 1]

SqDistance(a, b) ==
    (a.x - b.x) * (a.x - b.x) + (a.y - b.y) * (a.y - b.y) + (a.z - b.z) * (a.z - b.z)

\* Thumb tip to index tip, squared (0.05 squared is 25).
ThumbIndexSq == SqDistance(Landmark(4), Landmark(8))

\* The non-thumb fingers whose tip is strictly nearer the wrist than their knuckle.
FoldedFingers ==
    {f \in 1..4 : SqDistance(Landmark(4 * f + 4), Landmark(0))
                    < SqDistance(Landmark(4 * f + 1), Landmark(0))}

\* 5 * (pinkyBase.y - thumbBase.y), clamped to [-1, 1].
ExpectedTilt ==
    LET raw == 5 * (Landmark(17).y - Landmark(2).y)
    IN  IF raw > 100 THEN 100 ELSE IF raw < -100 THEN -100 ELSE raw

ReturnedLabel(g) == clsOutput.kind = "return" /\ clsOutput.value.gesture = g

-----------------------------------------------------------------------------
(* C1.  A handled result that shows a hand sets the mode from its label:   *)
(* CLOSED_FIST gives TREE, OPEN_PALM gives SCATTER, PINCH gives FOCUS,     *)
(* whatever the mode was (so a label that matches the mode leaves it).     *)
C1_LabelSetsMode ==
    (lastOp = "handleGestureResult" /\ gestureState.isHandDetected) =>
        /\ gestureState.gesture \in {"CLOSED_FIST", "OPEN_PALM", "PINCH"}
        /\ gestureState.gesture = "CLOSED_FIST" => appMode = "TREE"
        /\ gestureState.gesture = "OPEN_PALM" => appMode = "SCATTER"
        /\ gestureState.gesture = "PINCH" => appMode = "FOCUS"

\* A closed fist handled after a frame that highlighted a photo in FOCUS
\* mode: the mode went from FOCUS to TREE.
C1_Witness ==
    /\ lastOp = "handleGestureResult"
    /\ gestureState.gesture = "CLOSED_FIST"
    /\ appMode = "TREE"
    /\ focusedChildren # {}

(* C2.  Last gesture wins and None is sticky: the mode is the one mapped   *)
(* from the latest result that showed a hand, TREE if there was none.      *)
C2_LastGestureWins ==
    appMode = CASE lastLabel = "NONE" -> "TREE"
                [] lastLabel = "CLOSED_FIST" -> "TREE"
                [] lastLabel = "OPEN_PALM" -> "SCATTER"
                [] lastLabel = "PINCH" -> "FOCUS"

\* An open palm, then a result with no hand: the mode is still SCATTER.
C2_Witness ==
    /\ lastOp = "handleGestureResult"
    /\ lastLabel = "OPEN_PALM"
    /\ gestureState.gesture = "NONE"
    /\ appMode = "SCATTER"

(* C3.  Priority: a hand of 21 landmarks with thumb tip and index tip less *)
(* than 0.05 apart and at least 3 folded fingers is classified PINCH.      *)
C3_PinchBeforeFist ==
    (Classified /\ OneHandOf(21) /\ ThumbIndexSq < 25 /\ Cardinality(FoldedFingers) >= 3)
        => ReturnedLabel("PINCH")

C3_Witness ==
    /\ Classified /\ OneHandOf(21)
    /\ ThumbIndexSq < 25 /\ Cardinality(FoldedFingers) >= 3
    /\ ReturnedLabel("PINCH")

(* C4.  A hand of 21 landmarks with thumb tip and index tip at least 0.05  *)
(* apart is CLOSED_FIST exactly when at least 3 fingers are folded, else   *)
(* OPEN_PALM; it is never NONE.                                            *)
C4_FistOrPalm ==
    (Classified /\ OneHandOf(21) /\ ThumbIndexSq >= 25) =>
        IF Cardinality(FoldedFingers) >= 3
        THEN ReturnedLabel("CLOSED_FIST")
        ELSE ReturnedLabel("OPEN_PALM")

\* Exactly 0.05 apart and exactly 3 folded fingers.
C4_Witness ==
    /\ Classified /\ OneHandOf(21)
    /\ ThumbIndexSq = 25 /\ Cardinality(FoldedFingers) = 3
    /\ ReturnedLabel("CLOSED_FIST")

(* C5.  An absent hand (null or undefined landmarks, or an empty list)     *)
(* gives {NONE, rotation 0}, and nothing is thrown.                        *)
C5_AbsentHand ==
    (Classified /\ (~clsInput.defined \/ Len(clsInput.list) = 0)) =>
        clsOutput = [kind |-> "return", value |-> [gesture |-> "NONE", rotation |-> 0]]

C5_Witness ==
    /\ Classified /\ ~clsInput.defined
    /\ ReturnedLabel("NONE")

(* C6.  A hand with fewer than 21 landmarks is treated as an absent hand:  *)
(* the call returns {NONE, rotation 0} and does not throw.                 *)
C6_ShortHandIsAbsent ==
    (Classified /\ \E n \in 0..20 : OneHandOf(n)) =>
        clsOutput = [kind |-> "return", value |-> [gesture |-> "NONE", rotation |-> 0]]

(* C7.  For a hand of 21 landmarks the returned rotation is                *)
(* 5 * (pinkyBase.y - thumbBase.y) clamped to [-1, 1], whatever the label. *)
C7_TiltClamped ==
    (Classified /\ OneHandOf(21)) =>
        /\ clsOutput.kind = "return"
        /\ clsOutput.value.rotation = ExpectedTilt
        /\ clsOutput.value.rotation >= -100 /\ clsOutput.value.rotation <= 100

\* The upper clamp acts: 5 * dy is above 1.
C7_Witness ==
    /\ Classified /\ OneHandOf(21)
    /\ 5 * (Landmark(17).y - Landmark(2).y) > 100
    /\ clsOutput.value.rotation = 100

(* C8.  After a result with no hand is handled, the gesture state has the  *)
(* label NONE and the tilt 0.                                              *)
C8_NoHandNeutral ==
    (lastOp = "handleGestureResult" /\ ~gestureState.isHandDetected) =>
        gestureState.gesture = "NONE" /\ gestureState.handRotation = 0

(* C9.  Whenever the focus effect sets focusedIndex, the index it sets is  *)
(* that of a PHOTO particle of the current particle list.                  *)
C9_FocusIsPhoto ==
    lastOp = "setFocusedIndex" =>
        /\ focusedIndex \in 0..(Len(ornaments) - 1)
        /\ ornaments[focusedIndex + 1].type = "PHOTO"

\* The second of two photos is selected.
C9_Witness ==
    /\ lastOp = "setFocusedIndex"
    /\ Len(userImages) = 2
    /\ focusedIndex = 1

(* C10.  Once FOCUS mode is entered (the focus effect has run for it),     *)
(* the focused index does not change as long as the mode stays FOCUS,      *)
(* whatever frames, results and uploads happen meanwhile.                  *)
C10_FocusStable ==
    [][(appMode = "FOCUS" /\ appMode' = "FOCUS" /\ effectDeps[1] = "FOCUS")
          => focusedIndex' = focusedIndex]_vars

(* C11.  The focus effect selects exactly on transitions into FOCUS: a run *)
(* of the effect selects if and only if the mode it last ran with was not  *)
(* FOCUS, the mode now is FOCUS and there is a photo.                      *)
C11_SelectOnEntryOnly ==
    [][(effectDeps' # effectDeps) =>
          ((lastOp' = "setFocusedIndex") <=>
              (effectDeps[1] # "FOCUS" /\ appMode = "FOCUS" /\ Len(userImages) > 0))]_vars

(* Vocabulary of the generator's properties.                               *)

\* The decoration of index i (from 0) of a generation.
DecorationOf(g, i) == g.items[Len(g.images) + i + 1]

\* Two generations have run, with the same decoration count.
TwoGenerations == genCur.made /\ genPrev.made /\ genCur.count = genPrev.count

(* C14.  A generation on P photos and N decorations yields N + P particles *)
(* with unique ids: first the P photo slots in the order of the photo      *)
(* list, then the N decorations in index order; and the aggregated height  *)
(* of every photo slot lies strictly between -0.35 * TREE_HEIGHT and       *)
(* 0.35 * TREE_HEIGHT.                                                     *)
C14_GeneratedList ==
    genCur.made =>
        LET items == genCur.items
            P == Len(genCur.images)
            N == genCur.count
        IN  /\ Len(items) = N + P
            /\ \A a, b \in 1..Len(items) : a # b => items[a].id # items[b].id
            /\ \A k \in 1..P :
                  /\ items[k].type = "PHOTO"
                  /\ items[k].id = <<"photo", k - 1>>
                  /\ items[k].textureUrl = genCur.images[k]
                  /\ FracLess(<<-35 * TREE_HEIGHT, 100>>, items[k].positionTree.y)
                  /\ FracLess(items[k].positionTree.y, <<35 * TREE_HEIGHT, 100>>)
            /\ \A k \in 1..N :
                  /\ items[P + k].type \in {"GEM", "PEARL"}
                  /\ items[P + k].id = <<"ornament", k - 1>>

C14_Witness ==
    /\ genCur.made
    /\ genCur.images = <<2, 1>>
    /\ genCur.count = 2
    /\ genPrev.made /\ genPrev.images = <<>> /\ genPrev.count = 0

(* C15, as stated.  Decoration i has the same aggregated position in any   *)
(* two generations, whatever their photo lists and their random draws.     *)
C15_SamePosition ==
    TwoGenerations =>
        \A i \in 0..(genCur.count - 1) :
            DecorationOf(genCur, i).positionTree = DecorationOf(genPrev, i).positionTree

(* C15, amended.  Decoration i has the same aggregated height, the same    *)
(* spiral angle and the same cone radius at its height in any two          *)
(* generations, whatever their photo lists and their random draws; its     *)
(* distance from the axis is that radius times a factor drawn anew in each *)
(* generation, so (x, z) agree exactly when the two draws agree.           *)
C15_SameHeightAndAngle ==
    TwoGenerations =>
        \A i \in 0..(genCur.count - 1) :
            LET a == DecorationOf(genCur, i).positionTree
                b == DecorationOf(genPrev, i).positionTree
            IN  /\ FracEq(a.y, b.y)
                /\ a.thetaGolden = b.thetaGolden /\ a.thetaPi = b.thetaPi
                /\ FracEq(a.radius, b.radius)
                /\ (a = b) <=> (a.u = b.u)

C15_Witness ==
    /\ TwoGenerations
    /\ genCur.count = 2
    /\ genCur.images # genPrev.images
    /\ DecorationOf(genCur, 1).positionTree.u # DecorationOf(genPrev, 1).positionTree.u

(* C16.  Once stop() has returned (and start() is not called again), no    *)
(* call of detectForVideo is made and no result is handed to onResult:     *)
(* lastVideoTime, which detect assigns just before it calls                *)
(* detectForVideo, keeps its value, and no step is a run of the handler.   *)
C16_NoDetectionAfterStop ==
    [][(stopped /\ stopped') =>
          (lastVideoTime' = lastVideoTime /\ lastOp' # "handleGestureResult")]_vars

(* C17.  While the provider is not loaded, no run of detect has thrown, no *)
(* call of detectForVideo was made and nothing was handed to the handler:  *)
(* the mode is TREE, the gesture NONE with no hand, the tilt 0.            *)
C17_ProviderAbsent ==
    ~handLandmarker =>
        /\ ~svcThrown
        /\ lastVideoTime = -1
        /\ appMode = "TREE"
        /\ gestureState = [isHandDetected |-> FALSE, gesture |-> "NONE", handRotation |-> 0]
        /\ lastLabel = "NONE"

C17_Witness ==
    /\ ~handLandmarker
    /\ video
    /\ videoTime > 0
    /\ lastOp = "detect"
    /\ nextRafId > 2

(* Vocabulary of the frame properties.                                     *)

\* The particle list as the generation produced it.
Generated == generateParticles(userImages, ORNAMENT_COUNT, genSeed)

\* The state is the one a frame callback left.
FrameRendered == lastOp = "useFrame" /\ frameCount > 0

Abs(n) == IF n < 0 THEN -n ELSE n

\* The children rendered with isFocused (TreeScene.tsx:233-241).
RenderedFocused ==
    {i \in 0..(Len(ornaments) - 1) :
        ornaments[i + 1].type = "PHOTO" /\ appMode = "FOCUS" /\ i = focusedIndex}

(* C13.  After any number of frames in any modes, every particle's         *)
(* aggregated and scattered base positions are those the generation        *)
(* produced.                                                               *)
C13_BasePositionsFixed ==
    \A k \in 1..Len(ornamentData) :
        /\ ornamentData[k].positionTree = Generated[k].positionTree
        /\ ornamentData[k].positionScatter = Generated[k].positionScatter

(* C19.  After a frame in SCATTER mode every particle's target has the x   *)
(* and z of its generated scattered position and a height within 0.05 of   *)
(* the generated scattered height.                                         *)
C19_ScatterTargetNearBase ==
    (FrameRendered /\ appMode = "SCATTER") =>
        \A k \in 1..Len(frameTargets) :
            /\ frameTargets[k].kind = "scatter"
            /\ frameTargets[k].pos.x = Generated[k].positionScatter.x
            /\ frameTargets[k].pos.z = Generated[k].positionScatter.z
            /\ Abs(frameTargets[k].pos.y - Generated[k].positionScatter.y) <= 5

(* C20.  After a frame in FOCUS mode with a photo selected, exactly the    *)
(* selected photo has the camera-locked target and the target scale 4;     *)
(* every other particle's target is its generated scattered position and   *)
(* its target scale its generated scale.                                   *)
C20_FocusTargets ==
    (FrameRendered /\ appMode = "FOCUS" /\ Len(userImages) > 0) =>
        \A k \in 1..Len(frameTargets) :
            IF k - 1 = focusedIndex
            THEN frameTargets[k].kind = "camera" /\ frameTargets[k].scale = 4000
            ELSE /\ frameTargets[k].kind = "scatter"
                 /\ frameTargets[k].pos = Generated[k].positionScatter
                 /\ frameTargets[k].scale = Generated[k].scale

(* C12, as stated.  With no photo, no child is highlighted, and a frame in *)
(* FOCUS mode does to every particle what a frame in SCATTER mode would do *)
(* from the same state.                                                    *)
C12_FocusAsScatter ==
    [][(frameCount' # frameCount /\ Len(userImages) = 0 /\ appMode = "FOCUS") =>
          /\ focusedChildren' = {}
          /\ \E tq \in 0..3 :
                /\ frameTargets' =
                       frameTargetsOf("SCATTER", ornamentData, ornaments, focusedIndex, tq)
                /\ ornamentData' = dataAfterFrameAll("SCATTER", ornamentData, tq)]_vars

(* C12, amended.  With no photo, after a frame in any mode no child has    *)
(* the camera-locked target, the target scale 4, lookAt or isFocused; and  *)
(* after a frame in FOCUS mode every particle's target is its              *)
(* positionScatter as it stands, without the oscillation, its target scale *)
(* is its own scale and its lerp factor is 4.                              *)
C12_NoPhotoNoHighlight ==
    (FrameRendered /\ Len(userImages) = 0) =>
        /\ focusedChildren = {}
        /\ RenderedFocused = {}
        /\ \A k \in 1..Len(frameTargets) :
              /\ frameTargets[k].kind # "camera"
              /\ ~frameTargets[k].lookAt
              /\ frameTargets[k].scale = ornamentData[k].scale
              /\ frameTargets[k].scale # 4000
              /\ appMode = "FOCUS" =>
                    /\ frameTargets[k].kind = "scatter"
                    /\ frameTargets[k].pos = ornamentData[k].positionScatter
                    /\ frameTargets[k].lerpFactor = 4

C12_Witness ==
    /\ FrameRendered
    /\ Len(userImages) = 0
    /\ appMode = "FOCUS"
    /\ frameCount = 2
    /\ ornamentData # Generated

(* Vocabulary of the lerp properties.  The distance of a position to the   *)
(* target is compared coordinate by coordinate: when no coordinate is      *)
(* farther than before, the distance has strictly decreased exactly when   *)
(* some coordinate is nearer.                                              *)

AxisGaps(p) ==
    <<Abs(lerpTarget.x - p.x), Abs(lerpTarget.y - p.y), Abs(lerpTarget.z - p.z)>>

NotFarther(p, q) == \A a \in 1..3 : AxisGaps(q)[a] <= AxisGaps(p)[a]

StrictlyNearer(p, q) == NotFarther(p, q) /\ \E a \in 1..3 : AxisGaps(q)[a] < AxisGaps(p)[a]

\* distance < 1e-3
WithinThousandth(p) ==
    LET g == AxisGaps(p)
        t == LerpGrid \div 1000
    IN  /\ \A a \in 1..3 : g[a] < t
        /\ g[1] * g[1] + g[2] * g[2] + g[3] * g[3] < t * t

\* Frames after which the distance is below 1e-3, for the scene's positions.
ConvergeFrames == 340

\* Grid points below which the step (v.x - x) * alpha may round to nothing:
\* half a grid point times 1 / alpha, alpha = 2 / 60.
StallGap == 60 \div (2 * 2)

(* C18, as stated.  With the target fixed, delta = 1/60 and rate 2, every  *)
(* frame strictly decreases the distance to the target while it is not     *)
(* zero, and after ConvergeFrames frames the distance is below 1e-3.       *)
C18_StrictDecrease ==
    [][(lerpFrames' # lerpFrames) =>
          /\ (lerpPos # lerpTarget) => StrictlyNearer(lerpPos, lerpPos')
          /\ (lerpFrames' >= ConvergeFrames) => WithinThousandth(lerpPos')]_vars

(* C18, amended.  No frame increases the distance; a frame strictly        *)
(* decreases it while some coordinate is more than StallGap grid points    *)
(* from the target's (nearer than that, the step can round to nothing and  *)
(* the position stays, at a distance that is not zero); and after          *)
(* ConvergeFrames frames the distance is below 1e-3.                       *)
C18_DecreaseUntilRounding ==
    [][(lerpFrames' # lerpFrames) =>
          /\ NotFarther(lerpPos, lerpPos')
          /\ (\E a \in 1..3 : AxisGaps(lerpPos)[a] > StallGap)
                => StrictlyNearer(lerpPos, lerpPos')
          /\ (lerpFrames' >= ConvergeFrames) => WithinThousandth(lerpPos')]_vars

C18_Witness ==
    /\ lerpFrames >= ConvergeFrames
    /\ lerpPos # lerpTarget
    /\ lerpPos = lerpVector(lerpPos, lerpTarget)
    /\ WithinThousandth(lerpPos)

(* C24.  The mode changes only in a run of the gesture handler on a result *)
(* that shows a hand: frames, the focus effect in both its outcomes,       *)
(* uploads and results without a hand leave it as it is, and an upload     *)
(* with a null file list leaves the image list as it is too.               *)
C24_ModeWrittenByHandler ==
    [][/\ (appMode' # appMode) =>
              (lastOp' = "handleGestureResult" /\ gestureState'.isHandDetected)
       /\ (lastOp' \in {"useFrame", "setFocusedIndex", "focusEffect",
                        "handleFileUpload", "handleFileUploadNull"}) =>
              appMode' = appMode
       /\ (lastOp' = "handleFileUploadNull") => userImages' = userImages]_vars

C24_Witness ==
    /\ appMode = "SCATTER"
    /\ lastOp = "handleFileUploadNull"
    /\ ~gestureState.isHandDetected

(* C23.  A run of detect calls detectForVideo and the handler exactly when  *)
(* the provider is loaded, a video is set and the video's time differs     *)
(* from lastVideoTime, which it then sets to that time; otherwise it       *)
(* delivers nothing and leaves lastVideoTime, the mode and the gesture     *)
(* state as they are; and in both cases it requests the next frame.        *)
C23_NewFramesOnly ==
    [][(nextRafId' # nextRafId) =>
          /\ (lastOp' = "handleGestureResult") <=>
                 (handLandmarker /\ video' /\ videoTime # lastVideoTime)
          /\ (lastOp' = "handleGestureResult") => lastVideoTime' = videoTime
          /\ (lastOp' # "handleGestureResult") =>
                 /\ lastVideoTime' = lastVideoTime
                 /\ appMode' = appMode
                 /\ gestureState' = gestureState
          /\ requestRef' = nextRafId
          /\ requestRef' \in rafQueue']_vars

C23_Witness ==
    /\ handLandmarker
    /\ video
    /\ lastOp = "detect"
    /\ lastVideoTime = videoTime
    /\ videoTime > 0
    /\ appMode # "TREE"

(* C25.  At most one detect callback is scheduled at any time, whatever    *)
(* calls of start and stop and whatever frames came before.                *)
C25_OnePending == Cardinality(rafQueue) <= 1

(* C27.  Whatever the frame time, a frame does not move the child farther  *)
(* from its target than it was, in any coordinate.                         *)
C27_NeverFarther ==
    [][(lerpFrames' # lerpFrames) => NotFarther(lerpPos, lerpPos')]_vars

(* C21.  Every frame, in every mode, first replaces smoothRotation by      *)
(* smoothRotation + (handRotation - smoothRotation) * 0.1; a frame in      *)
(* FOCUS mode then leaves the yaw of the group as it is, and a frame in    *)
(* another mode adds (0.2 + smoothRotation * 1.5) * delta to it, with the  *)
(* new smoothRotation.                                                     *)
C21_GroupYaw ==
    [][(frameCount' # frameCount) =>
          /\ 10 * smoothRotation' =
                 10 * smoothRotation + (rawTilt(gestureState.handRotation) - smoothRotation)
          /\ IF appMode = "FOCUS"
             THEN groupYaw' = groupYaw
             ELSE groupYaw' - groupYaw =
                      (2 * SmoothUnit + 15 * smoothRotation') * frameDelta']_vars

C21_Witness ==
    /\ FrameRendered
    /\ frameCount = 2
    /\ appMode = "FOCUS"
    /\ gestureState.handRotation = -100
    /\ smoothRotation < 0
    /\ groupYaw > 0

(* C22.  Every frame, in every mode, adds 0.2 * delta to rotation.x and    *)
(* 0.3 * delta to rotation.y of every child that is not a photo and does   *)
(* not turn it to the camera; it adds nothing to the rotation of a photo,  *)
(* which changes only by being turned to the camera, as the selected photo *)
(* in FOCUS mode.                                                          *)
C22_SecondaryRotation ==
    [][(frameCount' # frameCount) =>
          \A k \in 1..Len(childRotation) :
              IF ornaments[k].type # "PHOTO"
              THEN /\ childRotation'[k].x = childRotation[k].x + 2 * frameDelta'
                   /\ childRotation'[k].y = childRotation[k].y + 3 * frameDelta'
                   /\ childRotation'[k].lookAt = childRotation[k].lookAt
              ELSE /\ childRotation'[k].x = childRotation[k].x
                   /\ childRotation'[k].y = childRotation[k].y
                   /\ (childRotation'[k] # childRotation[k]) =>
                          /\ appMode = "FOCUS"
                          /\ k - 1 = focusedIndex
                          /\ childRotation'[k].lookAt]_vars

C22_Witness ==
    /\ FrameRendered
    /\ frameCount = 2
    /\ appMode # "FOCUS"
    /\ childRotation[1].lookAt
    /\ childRotation[1].x = 0 /\ childRotation[1].y = 0
    /\ childRotation[2].x = 6 /\ childRotation[2].y = 9

C26_NoResultAfterCleanup ==
    [][/\ ~isMounted => (lastVideoTime' = lastVideoTime /\ lastOp' # "handleGestureResult")
       /\ ~isMounted' => rafQueue' = {}]_vars

C26_Witness ==
    /\ ~isMounted
    /\ initPc = "started"
    /\ handLandmarker /\ video
    /\ lastVideoTime # -1
    /\ videoTime # lastVideoTime
    /\ appMode # "TREE"
    /\ lastOp = "videoFrame"

=============================================================================
